---- MODULE Spec2Model ----
(***************************************************************************)
(* Model of dashboard.py: the cached fetch get_weather_data (TTL 900 s),   *)
(* the "Refresh Data" button, and the render performed by main (current    *)
(* conditions, weather-code lookup, 24-hour window, chart, raw table).     *)
(* Time is wall-clock seconds counted from an arbitrary origin.            *)
(***************************************************************************)
EXTENDS Integers, Sequences, FiniteSets, TLC

\* ------------------------------------------------------------------------
\* Bounds of the model
\* ------------------------------------------------------------------------
MaxClock == 4500
MaxLen == 3
MaxRequests == 3

\* ------------------------------------------------------------------------
\* Program constants
\* ------------------------------------------------------------------------
TTL == 900
WINDOW_HOURS == 24
HOUR == 3600

\* ------------------------------------------------------------------------
\* JSON / Python values.  Every value carries its type tag t; a dict is a
\* function from its keys to values, so an absent key is a key outside the
\* function's domain.
\* ------------------------------------------------------------------------
None == [t |-> "null"]
JNum(n) == [t |-> "num", n |-> n]
JStr(s) == [t |-> "str", s |-> s]
JTime(d, h) == [t |-> "str", iso |-> <<d, h>>]
JArr(a) == [t |-> "arr", a |-> a]
JObj(f) == [t |-> "obj", f |-> f]
Absent == [t |-> "absent"]
EmptyDict == JObj([k \in {} |-> None])

\* Builds a dict from a record, leaving out the keys marked Absent.
MkObj(rec) == JObj([k \in {x \in DOMAIN rec : rec[x] # Absent} |-> rec[k]])

\* dict.get(key, default)
Get(d, key, default) == IF key \in DOMAIN d.f THEN d.f[key] ELSE default

\* Python truth value of the objects tested by "if data:" and "if hourly:"
Truthy(x) ==
  CASE x.t = "null" -> FALSE
    [] x.t = "obj" -> DOMAIN x.f # {}
    [] x.t = "arr" -> Len(x.a) > 0
    [] x.t = "num" -> x.n # 0
    [] OTHER -> TRUE

\* ------------------------------------------------------------------------
\* WEATHER_CODES and the condition lookup
\* ------------------------------------------------------------------------
WEATHER_CODES ==
  (0 :> "Clear sky") @@
  (1 :> "Mainly clear") @@ (2 :> "Partly cloudy") @@ (3 :> "Overcast") @@
  (45 :> "Fog") @@ (48 :> "Depositing rime fog") @@
  (51 :> "Drizzle: Light") @@ (53 :> "Drizzle: Moderate") @@
  (55 :> "Drizzle: Dense intensity") @@
  (61 :> "Rain: Slight") @@ (63 :> "Rain: Moderate") @@
  (65 :> "Rain: Heavy intensity") @@
  (71 :> "Snow fall: Slight") @@ (73 :> "Snow fall: Moderate") @@
  (75 :> "Snow fall: Heavy intensity") @@
  (77 :> "Snow grains") @@
  (80 :> "Rain showers: Slight") @@ (81 :> "Rain showers: Moderate") @@
  (82 :> "Rain showers: Violent") @@
  (85 :> "Snow showers: Slight") @@ (86 :> "Snow showers: Heavy") @@
  (95 :> "Thunderstorm: Slight or moderate") @@
  (96 :> "Thunderstorm with slight hail") @@
  (99 :> "Thunderstorm with heavy hail")

\* WEATHER_CODES.get(weather_code, "Unknown")
LookupCode(code) ==
  IF code.t = "num" /\ code.n \in DOMAIN WEATHER_CODES
  THEN WEATHER_CODES[code.n]
  ELSE "Unknown"

\* current.get("weather_code", 0) followed by the table lookup
WeatherDescMissingIsUnknown(current) ==
  IF "weather_code" \in DOMAIN current.f
  THEN LookupCode(current.f["weather_code"])
  ELSE "Unknown"

WeatherDesc(current) == LookupCode(Get(current, "weather_code", JNum(0)))

\* The three st.metric calls
Metrics(current) ==
  << [label |-> "Temperature", unit |-> "C",
      value |-> Get(current, "temperature_2m", JStr("N/A"))],
     [label |-> "Wind Speed", unit |-> "km/h",
      value |-> Get(current, "wind_speed_10m", JStr("N/A"))],
     [label |-> "Condition", unit |-> "",
      value |-> JStr(WeatherDesc(current))] >>

\* ------------------------------------------------------------------------
\* Hourly table and the 24-hour window
\* ------------------------------------------------------------------------
\* pd.to_datetime of one ISO string "day d, hour h": seconds since origin
ToDatetime(s) == (s.iso[1] * 24 + s.iso[2]) * HOUR

\* Column lengths of the hourly record
ColLens(hourly) == {Len(hourly.f[k].a) : k \in DOMAIN hourly.f}

\* pd.DataFrame(hourly): one row per position, one field per key
DataFrame(hourly) ==
  LET n == CHOOSE m \in ColLens(hourly) : TRUE
  IN [columns |-> DOMAIN hourly.f,
      rows |-> [i \in 1..n |-> [k \in DOMAIN hourly.f |-> hourly.f[k].a[i]]]]

\* df['time'] = pd.to_datetime(df['time'])
ParseTimeColumn(df) ==
  [df EXCEPT !.rows =
     [i \in 1..Len(df.rows) |->
        [df.rows[i] EXCEPT !["time"] = ToDatetime(df.rows[i]["time"])]]]

\* (df['time'] >= now) & (df['time'] < now + timedelta(hours=24))
InWindowClosedEnd(t, now) == t >= now /\ t <= now + WINDOW_HOURS * HOUR

InWindow(t, now) == t >= now /\ t < now + WINDOW_HOURS * HOUR

\* df[mask]: the rows whose mask is true, in source order
RECURSIVE Filter(_, _)
Filter(rows, now) ==
  IF rows = <<>> THEN <<>>
  ELSE LET rest == Filter(Tail(rows), now)
       IN IF InWindow(Head(rows)["time"], now)
          THEN <<Head(rows)>> \o rest
          ELSE rest

\* A column of a frame as a sequence
Column(rows, k) == [i \in 1..Len(rows) |-> rows[i][k]]

\* ------------------------------------------------------------------------
\* What one run of main leaves on the page
\* ------------------------------------------------------------------------
NoChart == [shown |-> FALSE, x |-> <<>>, temperature |-> <<>>,
            precipitation |-> <<>>, glyphs |-> 0]
NoTable == [shown |-> FALSE, rows |-> <<>>]

\* The page before any element below the button is drawn.  error: the
\* st.error box of get_weather_data; exc: the exception that ended the run
\* ("none" when main returned); now: the reading of datetime.now() (-1 when
\* the run never reached it); windowed: next_24h was computed; src: the
\* number of the request whose result the run was given (0: none yet).
BlankPage == [error |-> FALSE, metrics |-> <<>>, chart |-> NoChart,
              table |-> NoTable, exc |-> "none", now |-> -1,
              windowed |-> FALSE, next_24h |-> <<>>, src |-> 0]

\* datetime.datetime.now() at the point main reads it; storedAt is the time
\* the snapshot in use entered the cache.
DatetimeNowAtFetch(clk, storedAt) == storedAt

DatetimeNow(clk, storedAt) == clk

\* Body of "if hourly:" in main, given the page drawn so far
PresentHourly(page, hourly, now) ==
  IF Cardinality(ColLens(hourly)) # 1
  THEN [page EXCEPT !.exc = "ValueError"]
  ELSE LET df0 == DataFrame(hourly) IN
    IF "time" \notin df0.columns
    THEN [page EXCEPT !.exc = "KeyError"]
    ELSE LET df == ParseTimeColumn(df0)
             next_24h == Filter(df.rows, now)
             windowedPage == [page EXCEPT !.now = now, !.windowed = TRUE,
                                          !.next_24h = next_24h]
         IN IF "temperature_2m" \notin df.columns
               \/ "precipitation_probability" \notin df.columns
            THEN [windowedPage EXCEPT !.exc = "KeyError"]
            ELSE [windowedPage EXCEPT
                    !.chart = [shown |-> TRUE,
                               x |-> Column(next_24h, "time"),
                               temperature |-> Column(next_24h, "temperature_2m"),
                               precipitation |->
                                 Column(next_24h, "precipitation_probability"),
                               glyphs |-> Len(next_24h)],
                    !.table = [shown |-> TRUE, rows |-> df.rows]]

\* Body of main from "if data:" on.  data is the value get_weather_data
\* returned, err whether its st.error box is on the page, now the reading
\* datetime.now() gives if the run reaches it.
Present(data, err, now) ==
  LET page == [BlankPage EXCEPT !.error = err] IN
  IF ~Truthy(data) THEN page
  ELSE LET current == Get(data, "current", EmptyDict) IN
    IF current.t # "obj"
    THEN [page EXCEPT !.exc = "AttributeError"]
    ELSE LET withMetrics == [page EXCEPT !.metrics = Metrics(current)]
             hourly == Get(data, "hourly", EmptyDict)
         IN IF ~Truthy(hourly) THEN withMetrics
            ELSE PresentHourly(withMetrics, hourly, now)

\* ------------------------------------------------------------------------
\* get_weather_data and its cache (st.cache_data(ttl=900))
\* ------------------------------------------------------------------------
\* How a request can end: a 2xx response whose body parses ("ok"), or one
\* of the three failures, each a requests.exceptions.RequestException:
\* requests.get raising, raise_for_status raising, response.json raising.
Failures == {"ConnectionError", "HTTPError", "JSONDecodeError"}

\* Body of get_weather_data for one request outcome: the value returned,
\* whether st.error was called, and the number of requests sent.
GetWeatherDataLeaksBody(outcome) ==
  IF outcome.kind = "ok"
  THEN [value |-> outcome.body, err |-> FALSE, sent |-> 1]
  ELSE [value |-> IF outcome.kind = "HTTPError" THEN outcome.body ELSE None,
        err |-> TRUE, sent |-> 1]

GetWeatherDataRetries(outcome) ==
  IF outcome.kind = "ok"
  THEN [value |-> outcome.body, err |-> FALSE, sent |-> 1]
  ELSE [value |-> None, err |-> TRUE, sent |-> 2]

GetWeatherData(outcome) ==
  IF outcome.kind = "ok"
  THEN [value |-> outcome.body, err |-> FALSE, sent |-> 1]
  ELSE [value |-> None, err |-> TRUE, sent |-> 1]

\* The cache holds at most one entry (the function takes no arguments).
Empty == [full |-> FALSE, value |-> None, err |-> FALSE, storedAt |-> 0,
          reqId |-> 0]

\* The entry can be served at time clk: present and younger than the TTL
CacheValidNoExpiry(entry, clk) == entry.full

CacheValidNever(entry, clk) == FALSE

CacheValid(entry, clk) == entry.full /\ clk - entry.storedAt < TTL

\* The entry written when the function returns r at time clk; the st.error
\* element is stored with the value and replayed on every hit.
CacheStoreSkipsNone(r, clk, id) ==
  IF r.value = None THEN Empty
  ELSE [full |-> TRUE, value |-> r.value, err |-> r.err, storedAt |-> clk,
        reqId |-> id]

CacheStore(r, clk, id) ==
  [full |-> TRUE, value |-> r.value, err |-> r.err, storedAt |-> clk,
   reqId |-> id]

\* st.cache_data.clear()
CacheClearKeeps(entry) == entry

CacheClear(entry) == Empty

\* ------------------------------------------------------------------------
\* Inputs
\* ------------------------------------------------------------------------
TickSteps == {300, 900}
Latencies == {0, 300}
ClockValues == {c \in 0..MaxClock : c % 300 = 0}

TimeStrings == {JTime(0, 0), JTime(1, 0), JTime(1, 1)}
TimeSeries == UNION {[1..n -> TimeStrings] : n \in 0..MaxLen}

\* Parallel columns; every row carries values that identify its position
NumColumn(n, base) == JArr([i \in 1..n |-> JNum(base + i)])

HourlyFor(times, withTemp, withPrecip) ==
  MkObj([time |-> JArr(times),
         temperature_2m |->
           IF withTemp THEN NumColumn(Len(times), 10) ELSE Absent,
         relative_humidity_2m |-> NumColumn(Len(times), 60),
         precipitation_probability |->
           IF withPrecip THEN NumColumn(Len(times), 20) ELSE Absent])

HourlyNoTime(n) ==
  MkObj([temperature_2m |-> NumColumn(n, 10),
         relative_humidity_2m |-> NumColumn(n, 60),
         precipitation_probability |-> NumColumn(n, 20)])

DefaultHourly == HourlyFor(<<JTime(0, 0), JTime(0, 1), JTime(1, 1)>>, TRUE, TRUE)

HourlyVariants ==
  {Absent, None, EmptyDict}
    \cup {HourlyFor(ts, a, b) : ts \in TimeSeries, a \in BOOLEAN, b \in BOOLEAN}
    \cup {HourlyNoTime(n) : n \in 0..MaxLen}

CodeChoices ==
  {Absent, None} \cup {JNum(n) : n \in DOMAIN WEATHER_CODES \cup {-1, 4, 100}}

DefaultCurrent ==
  MkObj([temperature_2m |-> JNum(12), wind_speed_10m |-> JNum(7),
         weather_code |-> JNum(3)])

CurrentVariants ==
  {Absent, None}
    \cup {MkObj([temperature_2m |-> a, wind_speed_10m |-> b,
                 weather_code |-> c]) :
            a \in {Absent, None, JNum(12)}, b \in {Absent, None, JNum(7)},
            c \in {Absent, JNum(3)}}
    \cup {MkObj([temperature_2m |-> JNum(12), wind_speed_10m |-> JNum(7),
                 weather_code |-> c]) : c \in CodeChoices}

\* A response body: the API always sends its own top-level keys (latitude,
\* ...) besides the requested records.
Snapshot(cur, hr) ==
  MkObj([latitude |-> JNum(51), current |-> cur, hourly |-> hr])

AllSnapshots ==
  {Snapshot(c, DefaultHourly) : c \in CurrentVariants}
    \cup {Snapshot(DefaultCurrent, h) : h \in HourlyVariants}
    \cup {EmptyDict}

FetchBodies ==
  {Snapshot(DefaultCurrent, DefaultHourly),
   Snapshot(MkObj([temperature_2m |-> JNum(9), wind_speed_10m |-> Absent,
                   weather_code |-> JNum(61)]),
            HourlyFor(<<JTime(0, 1), JTime(1, 0)>>, TRUE, TRUE))}

Outcomes == [kind : {"ok"} \cup Failures, body : FetchBodies]

\* ------------------------------------------------------------------------
\* State
\* ------------------------------------------------------------------------
VARIABLES
  clock,         \* wall clock, seconds
  cache,         \* the st.cache_data entry of get_weather_data
  requests,      \* number of requests.get calls made so far
  clearedAtReq,  \* value of requests at the latest st.cache_data.clear()
  pc,            \* "run": a script run is due; "idle": the page is shown
  ret,           \* the latest call of get_weather_data
  screen         \* the page left by the latest run of main

vars == <<clock, cache, requests, clearedAtReq, pc, ret, screen>>

\* value: what the call returned; hit: served by the cache; sent: requests
\* the call made; reqId, fetchedAt: number and completion time of the
\* request that produced value; at: time of the call; outcome: how the
\* call's own request ended ("cached" when it made none); failed: value
\* comes from a request that failed.
NoCall == [called |-> FALSE, value |-> None, hit |-> FALSE, sent |-> 0,
           reqId |-> 0, fetchedAt |-> 0, at |-> 0, outcome |-> "none",
           failed |-> FALSE]

Init ==
  /\ clock = 0
  /\ cache = Empty
  /\ requests = 0
  /\ clearedAtReq = 0
  /\ pc = "run"
  /\ ret = NoCall
  /\ screen = BlankPage

\* main() with the button not pressed, get_weather_data served by the cache
MainHit ==
  /\ CacheValid(cache, clock)
  /\ ret' = [called |-> TRUE, value |-> cache.value, hit |-> TRUE,
             sent |-> 0, reqId |-> cache.reqId,
             fetchedAt |-> cache.storedAt, at |-> clock,
             outcome |-> "cached", failed |-> cache.err]
  /\ screen' = [Present(cache.value, cache.err,
                        DatetimeNow(clock, cache.storedAt))
                  EXCEPT !.src = cache.reqId]
  /\ pc' = "idle"
  /\ UNCHANGED <<clock, cache, requests, clearedAtReq>>

\* main() with the button not pressed, get_weather_data running its body:
\* the request blocks the run for lat seconds and ends in outcome o
MainMiss ==
  /\ ~CacheValid(cache, clock)
  /\ requests < MaxRequests
  /\ \E o \in Outcomes, lat \in Latencies :
       LET r == GetWeatherData(o)
           done == clock + lat
           entry == CacheStore(r, done, requests + r.sent)
       IN /\ done <= MaxClock
          /\ clock' = done
          /\ requests' = requests + r.sent
          /\ cache' = entry
          /\ ret' = [called |-> TRUE, value |-> r.value, hit |-> FALSE,
                     sent |-> r.sent, reqId |-> requests + r.sent,
                     fetchedAt |-> done, at |-> clock,
                     outcome |-> o.kind, failed |-> r.err]
          /\ screen' = [Present(r.value, r.err, DatetimeNow(done, done))
                          EXCEPT !.src = requests + r.sent]
  /\ pc' = "idle"
  /\ UNCHANGED clearedAtReq

\* main() with "Refresh Data" pressed: clear the cache, st.rerun().  The
\* elements of the previous run stay on the page until the rerun draws.
Refresh ==
  /\ pc = "idle"
  /\ cache' = CacheClear(cache)
  /\ clearedAtReq' = requests
  /\ pc' = "run"
  /\ UNCHANGED <<clock, requests, ret, screen>>

\* Time passes
Tick ==
  /\ \E d \in TickSteps : clock + d <= MaxClock /\ clock' = clock + d
  /\ UNCHANGED <<cache, requests, clearedAtReq, pc, ret, screen>>

Next == MainHit \/ MainMiss \/ Refresh \/ Tick

Spec == Init /\ [][Next]_vars

\* The states right after a first run that fetched any snapshot at any time
InitPresenter ==
  /\ clock \in ClockValues
  /\ \E s \in AllSnapshots :
       LET r == GetWeatherData([kind |-> "ok", body |-> s])
       IN /\ cache = CacheStore(r, clock, 1)
          /\ ret = [called |-> TRUE, value |-> r.value, hit |-> FALSE,
                    sent |-> 1, reqId |-> 1, fetchedAt |-> clock,
                    at |-> clock, outcome |-> "ok", failed |-> r.err]
          /\ screen = [Present(r.value, r.err, DatetimeNow(clock, clock))
                         EXCEPT !.src = 1]
  /\ requests = 1
  /\ clearedAtReq = 0
  /\ pc = "idle"

\* Renders of the snapshot in the cache while it stays there
NextPresenter == MainHit \/ Tick

SpecPresenter == InitPresenter /\ [][NextPresenter]_vars

\* ------------------------------------------------------------------------
\* Properties of the fetch / cache / refresh cycle (checked under Spec)
\* ------------------------------------------------------------------------
\* A step in which get_weather_data was called
CallStep == ret' # ret

\* The latest call was made after the latest refresh (a refresh leaves a
\* run pending until the next call)
NoRefreshSinceCall == ret.called /\ pc = "idle"

\* The page shows no metric, no chart and no raw-data table
NothingRendered ==
  /\ screen.metrics = <<>>
  /\ ~screen.chart.shown
  /\ ~screen.table.shown

\* C1: a call of get_weather_data made less than 900 seconds after the
\* request that produced the previous call's result completed, with no
\* refresh in between, sends no request (so that request stays the only one
\* of the window) and returns the value the previous call returned.
C1_SecondCallInWindowIsServedFromCache ==
  [][(NoRefreshSinceCall /\ clock - ret.fetchedAt < TTL /\ CallStep)
       => /\ ret'.sent = 0
          /\ requests' = requests
          /\ requests' = ret.reqId
          /\ ret'.reqId = ret.reqId
          /\ ret'.value = ret.value]_vars

C1_Witness ==
  /\ ret.hit
  /\ ret.at > ret.fetchedAt
  /\ ret.value # None
  /\ requests = ret.reqId
  /\ screen.src = ret.reqId

\* C2: a press of "Refresh Data" leaves the cache empty with a run pending;
\* the call of that run sends exactly one new request, also when the entry
\* cleared was younger than the TTL, and the page it draws comes from that
\* request, which is numbered after every request made before.
C2_RefreshForcesNewerFetch ==
  [][/\ (pc' = "run" => ~cache'.full)
     /\ (pc = "run" /\ CallStep)
          => /\ ~ret'.hit
             /\ ret'.sent = 1
             /\ requests' = requests + 1
             /\ ret'.reqId > requests
             /\ ret'.reqId > ret.reqId
             /\ ret'.at >= ret.fetchedAt
             /\ screen'.src = ret'.reqId]_vars

\* The entry of request 1 was cleared and request 2 made while that entry
\* was younger than the TTL (everything happened before time TTL)
C2_Witness ==
  /\ pc = "idle"
  /\ clearedAtReq = 1
  /\ requests = 2
  /\ ret.reqId = 2
  /\ ~ret.hit
  /\ ret.fetchedAt < TTL
  /\ screen.src = 2

\* C3: when the request of a call fails (network error, HTTP error status,
\* unparseable body) the call shows the error and returns None, and a run
\* given None draws no metric, no chart and no table and raises nothing.
C3_FailureShowsErrorAndNothingElse ==
  /\ (ret.called /\ ret.outcome \in Failures)
       => /\ screen.error
          /\ ret.value = None
  /\ (ret.called /\ ret.value = None)
       => /\ NothingRendered
          /\ screen.exc = "none"
          /\ ~screen.windowed

C3_Witness ==
  /\ ret.called
  /\ ret.outcome = "JSONDecodeError"
  /\ screen.error
  /\ NothingRendered

\* C7: requests are sent only by a call that finds the cache empty or its
\* entry at least 900 seconds old, one request per such call; after a
\* failed request no request is sent while the entry is younger than the
\* TTL and no refresh happened.
C7_OneRequestPerMissNoRetry ==
  [][/\ (requests' # requests)
          => /\ CallStep
             /\ ~ret'.hit
             /\ (~cache.full \/ clock - cache.storedAt >= TTL)
             /\ requests' = requests + 1
             /\ ret'.sent = 1
     /\ (CallStep /\ (~cache.full \/ clock - cache.storedAt >= TTL))
          => requests' = requests + 1
     /\ (NoRefreshSinceCall /\ ret.failed /\ clock - ret.fetchedAt < TTL)
          => requests' = requests]_vars

\* A second request made with no refresh ever pressed (TTL expiry), failed
C7_Witness ==
  /\ requests >= 2
  /\ clearedAtReq = 0
  /\ ~ret.hit
  /\ ret.sent = 1
  /\ ret.outcome \in Failures

\* C8: the value of a call was produced by a request that completed at most
\* 900 seconds before the call and was made after the latest refresh; the
\* page shows the result of that request.
C8_ServedSnapshotIsFreshAndPostRefresh ==
  NoRefreshSinceCall
    => /\ ret.at - ret.fetchedAt <= TTL
       /\ ret.reqId > clearedAtReq
       /\ screen.src = ret.reqId

C8_Witness ==
  /\ pc = "idle"
  /\ ret.hit
  /\ ret.at - ret.fetchedAt = 600
  /\ clearedAtReq >= 1
  /\ ret.value # None

\* C10: after a call returned None because its request failed, a later call
\* made within 900 seconds of that request and without a refresh sends no
\* request and returns None again, and the page shows no data.
C10_FailureIsMemoized ==
  [][(NoRefreshSinceCall /\ ret.failed /\ ret.value = None
        /\ clock - ret.fetchedAt < TTL /\ CallStep)
       => /\ requests' = requests
          /\ ret'.sent = 0
          /\ ret'.hit
          /\ ret'.value = None
          /\ ret'.failed
          /\ screen'.metrics = <<>>
          /\ ~screen'.chart.shown]_vars

C10_Witness ==
  /\ ret.hit
  /\ ret.failed
  /\ ret.value = None
  /\ ret.at > ret.fetchedAt
  /\ screen.metrics = <<>>

\* ------------------------------------------------------------------------
\* Properties of the render (checked under SpecPresenter)
\* ------------------------------------------------------------------------
\* The snapshot of the latest call, its records, and the time of its render
Shown == ret.value
ShownCurrent == Get(Shown, "current", EmptyDict)
ShownHourly == Get(Shown, "hourly", EmptyDict)
RenderedAt == IF ret.hit THEN ret.at ELSE ret.fetchedAt

\* The hourly record has the three columns main reads, of equal length
HourlyComplete(h) ==
  /\ h.t = "obj"
  /\ {"time", "temperature_2m", "precipitation_probability"} \subseteq DOMAIN h.f
  /\ Cardinality(ColLens(h)) = 1

\* The source rows of a drawn window, timestamps parsed
SourceRows == ParseTimeColumn(DataFrame(ShownHourly)).rows

\* Positions of the source rows with now <= t < now + 24 h
InRange(rows, now) ==
  {i \in 1..Len(rows) : now <= rows[i]["time"] /\ rows[i]["time"] < now + 86400}

\* The rows at those positions, by increasing position
ExactWindow(rows, now) ==
  LET idx == InRange(rows, now)
      Nth(k) == CHOOSE i \in idx : Cardinality({j \in idx : j <= i}) = k
  IN [k \in 1..Cardinality(idx) |-> rows[Nth(k)]]

\* C4: a run given a fetched snapshot, whatever fields it lacks, raises
\* nothing.
C4_MissingFieldsNeverRaise ==
  (ret.called /\ ret.outcome # "none" /\ ret.value # None)
    => screen.exc = "none"

\* C5: next_24h holds exactly the source rows with now <= t < now + 24 h,
\* in source order, each once; when no row is in range it is empty and,
\* the hourly record having its columns, the chart is drawn (with no
\* points) and the run raises nothing.
C5_WindowIsExactSubsequence ==
  screen.windowed
    => /\ screen.next_24h = ExactWindow(SourceRows, screen.now)
       /\ HourlyComplete(ShownHourly)
            => /\ screen.chart.shown
               /\ screen.exc = "none"
               /\ screen.chart.x = Column(screen.next_24h, "time")
               /\ screen.chart.temperature =
                    Column(screen.next_24h, "temperature_2m")
               /\ screen.chart.glyphs = Len(screen.next_24h)
       /\ (InRange(SourceRows, screen.now) = {})
            => screen.next_24h = <<>>

\* Three source rows, the first before now, the other two in the window
C5_Witness ==
  /\ screen.windowed
  /\ screen.chart.shown
  /\ Len(SourceRows) = 3
  /\ InRange(SourceRows, screen.now) = {2, 3}
  /\ Len(screen.next_24h) = 2

\* Every source row later than now + 24 h: empty window, chart drawn
C5_StaleWitness ==
  /\ screen.windowed
  /\ Len(SourceRows) > 0
  /\ \A i \in 1..Len(SourceRows) : SourceRows[i]["time"] >= screen.now + 86400
  /\ screen.next_24h = <<>>
  /\ screen.chart.shown

\* The condition text the claim expects for a current record
ExpectedCondition(current) ==
  IF "weather_code" \notin DOMAIN current.f THEN "Clear sky"
  ELSE LET c == current.f["weather_code"]
       IN IF c.t = "num" /\ c.n \in DOMAIN WEATHER_CODES
          THEN WEATHER_CODES[c.n]
          ELSE "Unknown"

\* C6: whenever the snapshot's current record is a dict (or missing) the
\* condition metric is drawn, and its text is the table's description of
\* the code, "Unknown" for a code outside the table, "Clear sky" when the
\* record has no weather_code; the table maps 0 to "Clear sky".
C6_ConditionLookup ==
  /\ WEATHER_CODES[0] = "Clear sky"
  /\ (ret.called /\ Truthy(Shown) /\ ShownCurrent.t = "obj")
       => /\ Len(screen.metrics) = 3
          /\ screen.metrics[3].label = "Condition"
          /\ screen.metrics[3].value = JStr(ExpectedCondition(ShownCurrent))

C6_Witness ==
  /\ ret.called
  /\ Truthy(Shown)
  /\ ShownCurrent.t = "obj"
  /\ "weather_code" \notin DOMAIN ShownCurrent.f
  /\ "temperature_2m" \in DOMAIN ShownCurrent.f
  /\ Len(screen.metrics) = 3
  /\ screen.metrics[3].value = JStr("Clear sky")

\* C9: every run that computes the window, also one served by the cache,
\* uses one reading of the clock, taken in that run, for both bounds: the
\* window is the rows with now <= t < now + 24 h for now the time of the
\* run, not the time of the fetch.
C9_WindowUsesClockOfTheRender ==
  [][(CallStep /\ screen'.windowed)
       => /\ screen'.now = clock'
          /\ screen'.next_24h =
               ExactWindow(ParseTimeColumn(
                             DataFrame(Get(ret'.value, "hourly", EmptyDict))).rows,
                           clock')]_vars

\* A run served by the cache whose window differs from the window the same
\* snapshot had when it was fetched
C9_Witness ==
  /\ ret.hit
  /\ screen.windowed
  /\ screen.now = ret.at
  /\ screen.now > ret.fetchedAt
  /\ screen.next_24h # ExactWindow(SourceRows, ret.fetchedAt)

====
